---- MODULE Spec2Model ----
(***************************************************************************)
(* Model of YoutubeRipper5000.py: the URL validator, the run context       *)
(* (Downloads folder, time-stamped log path), the ffmpeg.exe precondition, *)
(* the FileLogger adapter handed to the extraction engine, and the exit    *)
(* status of main.  Strings are sequences of one-character strings.        *)
(***************************************************************************)
EXTENDS Integers, Sequences, FiniteSets, TLC

\* ------------------------------------------------------------- bounds
\* Most log lines sent to the adapters, all runs together, in one behaviour.
MaxLines == 2
\* Most times the wall clock is observed to advance during a behaviour.
MaxTicks == 1

\* The runs (processes) of the program that may be alive at once.
Runs == {1, 2}

\* ------------------------------------------------------------- characters
cHttp == <<"h","t","t","p">>
cS == <<"s">>
cColonSlashes == <<":","/","/">>
cWww == <<"w","w","w",".">>
cM == <<"m",".">>
cWatch == <<"y","o","u","t","u","b","e",".","c","o","m","/","w","a","t","c","h","?","v","=">>
cPlaylist == <<"y","o","u","t","u","b","e",".","c","o","m","/","p","l","a","y","l","i","s","t","?","l","i","s","t","=">>
cShort == <<"y","o","u","t","u",".","b","e","/">>

\* What \s matches (the characters of it that the inputs below use).
Whitespace == {" ", "\t", "\n"}

\* ------------------------------------------------------------- regex
\* A pattern is a sequence of items, matched left to right from the start of
\* the string (re.match): a literal, an optional literal "(lit)?", or a
\* "[^x]+" run of one or more characters outside a set.
Lit(c) == [k |-> "lit", c |-> c, x |-> {}]
Opt(c) == [k |-> "opt", c |-> c, x |-> {}]
PlusNot(x) == [k |-> "plusnot", c |-> <<>>, x |-> x]
\* "$"-like end anchor; no pattern of the program has one.
EndOfString == [k |-> "end", c |-> <<>>, x |-> {}]

\* The string s holds the literal c at position i.
HasAt(s, i, c) ==
    /\ i + Len(c) - 1 <= Len(s)
    /\ \A n \in 1..Len(c) : s[i + n - 1] = c[n]

RECURSIVE MatchFrom(_, _, _, _)
\* Items k.. of pat match some prefix of s starting at position i (backtracking).
MatchFrom(pat, k, s, i) ==
    IF k > Len(pat) THEN TRUE
    ELSE LET it == pat[k] IN
         CASE it.k = "lit" ->
                HasAt(s, i, it.c) /\ MatchFrom(pat, k + 1, s, i + Len(it.c))
           [] it.k = "opt" ->
                \/ HasAt(s, i, it.c) /\ MatchFrom(pat, k + 1, s, i + Len(it.c))
                \/ MatchFrom(pat, k + 1, s, i)
           [] it.k = "plusnot" ->
                \E j \in (i + 1)..(Len(s) + 1) :
                    /\ \A n \in i..(j - 1) : s[n] \notin it.x
                    /\ MatchFrom(pat, k + 1, s, j)
           [] it.k = "end" ->
                i = Len(s) + 1 /\ MatchFrom(pat, k + 1, s, i)

\* re.match(p, url): the pattern matches at the start; nothing anchors the end.
re_match(pat, s) == MatchFrom(pat, 1, s, 1)

\* Mutant of YOUTUBE_PATTERNS: the optional subdomain group is missing.
YOUTUBE_PATTERNS_nosub ==
    << <<Lit(cHttp), Opt(cS), Lit(cColonSlashes), Lit(cWatch), PlusNot({"&"} \cup Whitespace)>>,
       <<Lit(cHttp), Opt(cS), Lit(cColonSlashes), Lit(cPlaylist), PlusNot({"&"} \cup Whitespace)>>,
       <<Lit(cHttp), Opt(cS), Lit(cColonSlashes), Lit(cShort), PlusNot({"?"} \cup Whitespace)>> >>

YOUTUBE_PATTERNS ==
    << <<Lit(cHttp), Opt(cS), Lit(cColonSlashes), Opt(cWww), Lit(cWatch), PlusNot({"&"} \cup Whitespace)>>,
       <<Lit(cHttp), Opt(cS), Lit(cColonSlashes), Opt(cWww), Lit(cPlaylist), PlusNot({"&"} \cup Whitespace)>>,
       <<Lit(cHttp), Opt(cS), Lit(cColonSlashes), Opt(cM), Lit(cWatch), PlusNot({"&"} \cup Whitespace)>>,
       <<Lit(cHttp), Opt(cS), Lit(cColonSlashes), Opt(cWww), Lit(cShort), PlusNot({"?"} \cup Whitespace)>> >>

\* Mutant of is_valid_youtube_url: re.fullmatch, the whole string must match.
is_valid_youtube_url_full(url) ==
    \E n \in 1..Len(YOUTUBE_PATTERNS) : re_match(YOUTUBE_PATTERNS[n] \o <<EndOfString>>, url)

is_valid_youtube_url(url) ==
    \E n \in 1..Len(YOUTUBE_PATTERNS) : re_match(YOUTUBE_PATTERNS[n], url)

\* ------------------------------------------------------------- url inputs
\* A candidate URL is put together from six parts, so that a property can talk
\* about the shape of the string it checks.
Schemes == { <<"h","t","t","p","s",":","/","/">>, <<"h","t","t","p",":","/","/">>,
             <<>>, <<"f","t","p",":","/","/">>, <<"h","t","p","s",":","/","/">> }
HttpSchemes == { <<"h","t","t","p","s",":","/","/">>, <<"h","t","t","p",":","/","/">> }
Subdomains == { <<>>, cWww, cM }
hostYoutube == <<"y","o","u","t","u","b","e",".","c","o","m">>
hostShort == <<"y","o","u","t","u",".","b","e">>
Hosts == { hostYoutube, hostShort }
pathWatch == <<"/","w","a","t","c","h","?","v","=">>
pathPlaylist == <<"/","p","l","a","y","l","i","s","t","?","l","i","s","t","=">>
pathSlash == <<"/">>
Paths == { pathWatch, pathPlaylist, pathSlash, <<>> }
Ids == { <<>>, <<"a">>, <<"a","b">> }
Tails == { <<>>, <<"&","t","=","1">>, <<" ","x">>, <<"?","x">> }
\* Strings appended to a candidate URL.
Suffixes == { <<>>, <<"&">>, <<" ">>, <<"?">>, <<"/","z">>, <<"\n","z">> }

UrlParts == [scheme : Schemes, sub : Subdomains, host : Hosts,
             path : Paths, id : Ids, tail : Tails]

Compose(c) == c.scheme \o c.sub \o c.host \o c.path \o c.id \o c.tail

Verdict(b) == IF b THEN "accepted" ELSE "rejected"

\* ------------------------------------------------------------- state
VARIABLES
    parts,      \* validator harness: the parts of the URL under test
    suffix,     \* validator harness: the string appended to it
    res,        \* validator harness: verdict on the URL ("unset" before the call)
    resCat,     \* validator harness: verdict on the URL followed by suffix
    clock,      \* local wall clock, whole seconds since midnight
    ticks,      \* how many times the clock has advanced
    dirExists,  \* <script dir>/Downloads exists
    dirCreatable, \* mkdir of it can succeed
    ffmpegExists, \* <script dir>/ffmpeg.exe exists
    files,      \* the files under Downloads: path -> sequence of lines
    run         \* per run: the locals of main and of the FileLogger

vars == <<parts, suffix, res, resCat, clock, ticks, dirExists, dirCreatable,
          ffmpegExists, files, run>>
urlVars == <<parts, suffix, res, resCat>>
envVars == <<clock, ticks, dirExists, dirCreatable, ffmpegExists, files>>

NoFiles == [p \in {} |-> <<>>]
NoPath == <<>>
NoLine == [ts |-> 0, level |-> "", msg |-> "", id |-> <<0, 0>>]

\* A run before line 59. pc is the place in main; url, logpath, result and the
\* adapter's line (cur) are the locals of main and _write; console is what the
\* run has printed; pos is the file position of the open log file; exitcode is
\* -1 while the process lives. started and stamped (the clock at line 59 and
\* at line 54), invoked, sent, madeDir, madeLog and the id of a line record
\* only record what has happened.
IdleRun ==
    [pc |-> "idle", url |-> <<>>, started |-> 0, logpath |-> NoPath, stamped |-> 0,
     valid |-> "unset", console |-> <<>>, exitcode |-> -1, result |-> -1, invoked |-> FALSE,
     sent |-> 0, cur |-> NoLine, pos |-> 0, madeDir |-> FALSE, madeLog |-> FALSE]

\* ------------------------------------------------------------- validator alone
\* The clock at the start of a behaviour: 09:59:58.
BaseTime == 35998

InitUrl ==
    /\ parts \in UrlParts
    /\ suffix \in Suffixes
    /\ res = "unset"
    /\ resCat = "unset"
    /\ clock = BaseTime /\ ticks = 0
    /\ dirExists = FALSE /\ dirCreatable = TRUE /\ ffmpegExists = TRUE
    /\ files = NoFiles
    /\ run = [r \in Runs |-> IdleRun]

\* is_valid_youtube_url(url)
CheckUrl ==
    /\ res = "unset"
    /\ res' = Verdict(is_valid_youtube_url(Compose(parts)))
    /\ UNCHANGED <<parts, suffix, resCat, envVars, run>>

\* is_valid_youtube_url(url + suffix)
CheckAppended ==
    /\ resCat = "unset"
    /\ resCat' = Verdict(is_valid_youtube_url(Compose(parts) \o suffix))
    /\ UNCHANGED <<parts, suffix, res, envVars, run>>

NextUrl == CheckUrl \/ CheckAppended

SpecUrl == InitUrl /\ [][NextUrl]_vars

\* ------------------------------------------------------------- run context
Digits == <<"0","1","2","3","4","5","6","7","8","9">>
Digit(n) == Digits[n + 1]
\* %H, %M, %S: two digits, zero padded.
Pad2(n) == <<Digit(n \div 10), Digit(n % 10)>>

\* The day of the behaviours, as %Y%m%d prints it.
DateStamp == <<"2","0","2","5","0","6","1","4">>

\* Mutant of strftime: the format lacks %S.
strftime_nosec(t) ==
    DateStamp \o <<"_">> \o Pad2(t \div 3600) \o Pad2((t \div 60) % 60)

\* datetime.strftime('%Y%m%d_%H%M%S') of second t of the day.
strftime(t) ==
    DateStamp \o <<"_">> \o Pad2(t \div 3600) \o Pad2((t \div 60) % 60) \o Pad2(t % 60)

\* make_log_file: outdir / "download_<stamp>.log", the path relative to outdir.
make_log_file(t) ==
    <<"d","o","w","n","l","o","a","d","_">> \o strftime(t) \o <<".","l","o","g">>

RECURSIVE LStrip(_)
LStrip(s) == IF s # <<>> /\ Head(s) \in Whitespace THEN LStrip(Tail(s)) ELSE s
RECURSIVE RStrip(_)
RStrip(s) ==
    IF s # <<>> /\ s[Len(s)] \in Whitespace THEN RStrip(SubSeq(s, 1, Len(s) - 1)) ELSE s
\* str.strip()
Strip(s) == RStrip(LStrip(s))

\* What the user hands to a run.
urlWatch ==
    Compose([scheme |-> <<"h","t","t","p","s",":","/","/">>, sub |-> cWww,
             host |-> hostYoutube, path |-> pathWatch, id |-> <<"a","b">>, tail |-> <<>>])
urlOther ==
    Compose([scheme |-> <<"h","t","t","p","s",":","/","/">>, sub |-> <<>>,
             host |-> hostYoutube, path |-> pathSlash, id |-> <<"a">>, tail |-> <<>>])
RunInputs == { urlWatch, urlOther, <<" ">> \o urlWatch }

\* The severity tags of the adapter and the engine's message texts.
Levels == {"DEBUG", "WARN", "ERROR"}
Msgs == {"msg"}
\* The result codes ydl.download may return.
ResultCodes == {0, 1}

Printed(text) == [kind |-> "print", text |-> text, code |-> 0, line |-> NoLine]
Logged(line) == [kind |-> "log", text |-> "", code |-> 0, line |-> line]
Summary(code) ==
    [kind |-> "summary",
     text |-> IF code = 0 THEN "Download complete." ELSE "Download finished with exit code",
     code |-> code, line |-> NoLine]

Init ==
    /\ parts = CHOOSE c \in UrlParts : TRUE
    /\ suffix = <<>>
    /\ res = "unset"
    /\ resCat = "unset"
    /\ clock = BaseTime
    /\ ticks = 0
    /\ dirExists = FALSE
    /\ dirCreatable \in BOOLEAN
    /\ ffmpegExists \in BOOLEAN
    /\ files = NoFiles
    /\ run = [r \in Runs |-> IdleRun]

\* A second passes.
Tick ==
    /\ ticks < MaxTicks
    /\ clock' = clock + 1
    /\ ticks' = ticks + 1
    /\ UNCHANGED <<urlVars, dirExists, dirCreatable, ffmpegExists, files, run>>

\* main, line 59: the URL from argv as it is, or from the prompt, stripped.
Start(r) ==
    /\ run[r].pc = "idle"
    /\ \E u \in RunInputs, via \in {"argv", "prompt"} :
          run' = [run EXCEPT ![r].pc = "validate",
                             ![r].url = IF via = "prompt" THEN Strip(u) ELSE u,
                             ![r].started = clock]
    /\ UNCHANGED <<urlVars, envVars>>

\* Mutant of Validate: the invalid branch reports but does not exit.
Validate_noexit(r) ==
    /\ run[r].pc = "validate"
    /\ IF is_valid_youtube_url(run[r].url)
       THEN run' = [run EXCEPT ![r].pc = "mkdir", ![r].valid = "accepted"]
       ELSE run' = [run EXCEPT ![r].pc = "mkdir", ![r].valid = "rejected",
                               ![r].console = Append(@, Printed("Invalid or unsupported YouTube URL."))]
    /\ UNCHANGED <<urlVars, envVars>>

\* main, lines 61-63.
Validate(r) ==
    /\ run[r].pc = "validate"
    /\ IF is_valid_youtube_url(run[r].url)
       THEN run' = [run EXCEPT ![r].pc = "mkdir", ![r].valid = "accepted"]
       ELSE run' = [run EXCEPT ![r].pc = "exited", ![r].valid = "rejected",
                               ![r].exitcode = 1,
                               ![r].console = Append(@, Printed("Invalid or unsupported YouTube URL."))]
    /\ UNCHANGED <<urlVars, envVars>>

\* Mutant of get_download_folder: a failed mkdir is swallowed.
get_download_folder_swallow(r) ==
    /\ run[r].pc = "mkdir"
    /\ dirExists' = (dirExists \/ dirCreatable)
    /\ run' = [run EXCEPT ![r].pc = "mklog", ![r].madeDir = ~dirExists /\ dirCreatable]
    /\ UNCHANGED <<urlVars, clock, ticks, dirCreatable, ffmpegExists, files>>

\* main, line 66: get_download_folder. mkdir(parents=True, exist_ok=True) makes
\* the folder when it is absent; when it cannot, the OSError is caught nowhere
\* and the interpreter ends the process with status 1.
get_download_folder(r) ==
    /\ run[r].pc = "mkdir"
    /\ IF dirExists \/ dirCreatable
       THEN /\ dirExists' = TRUE
            /\ run' = [run EXCEPT ![r].pc = "mklog", ![r].madeDir = ~dirExists]
       ELSE /\ dirExists' = dirExists
            /\ run' = [run EXCEPT ![r].pc = "exited", ![r].exitcode = 1]
    /\ UNCHANGED <<urlVars, clock, ticks, dirCreatable, ffmpegExists, files>>

\* main, lines 67-70: the log path from the clock as it reads now; no file yet.
MakeLogFile(r) ==
    /\ run[r].pc = "mklog"
    /\ run' = [run EXCEPT ![r].pc = "ffmpeg",
                          ![r].logpath = make_log_file(clock),
                          ![r].stamped = clock,
                          ![r].console = @ \o <<Printed("Output folder:"), Printed("Log file:")>>]
    /\ UNCHANGED <<urlVars, envVars>>

\* Mutant of CheckFfmpeg: the missing binary is reported without exiting.
CheckFfmpeg_noexit(r) ==
    /\ run[r].pc = "ffmpeg"
    /\ IF ffmpegExists
       THEN run' = [run EXCEPT ![r].pc = "engine"]
       ELSE run' = [run EXCEPT ![r].pc = "engine",
                               ![r].console = Append(@, Printed("ffmpeg.exe not found"))]
    /\ UNCHANGED <<urlVars, envVars>>

\* main, lines 73-110: the ffmpeg.exe check, then the options and the adapter.
CheckFfmpeg(r) ==
    /\ run[r].pc = "ffmpeg"
    /\ IF ffmpegExists
       THEN run' = [run EXCEPT ![r].pc = "engine"]
       ELSE run' = [run EXCEPT ![r].pc = "exited", ![r].exitcode = 1,
                               ![r].console = Append(@, Printed("ffmpeg.exe not found"))]
    /\ UNCHANGED <<urlVars, envVars>>

\* main, lines 113-114: ydl.download([url]) is entered.
InvokeEngine(r) ==
    /\ run[r].pc = "engine"
    /\ run' = [run EXCEPT ![r].pc = "download", ![r].invoked = TRUE]
    /\ UNCHANGED <<urlVars, envVars>>

RECURSIVE SentBy(_)
\* The number of adapter calls the runs of set rs have made so far.
SentBy(rs) ==
    IF rs = {} THEN 0
    ELSE LET r == CHOOSE x \in rs : TRUE IN run[r].sent + SentBy(rs \ {r})

\* FileLogger.debug / warning / error, then _write lines 105-106: the engine
\* calls the adapter, which formats the line and prints it.
LoggerCall(r) ==
    /\ run[r].pc = "download"
    /\ SentBy(Runs) < MaxLines
    /\ \E level \in Levels, msg \in Msgs :
          LET line == [ts |-> clock, level |-> level, msg |-> msg,
                       id |-> <<r, run[r].sent + 1>>]
          IN run' = [run EXCEPT ![r].pc = "open", ![r].cur = line,
                                ![r].sent = @ + 1,
                                ![r].console = Append(@, Logged(line))]
    /\ UNCHANGED <<urlVars, envVars>>

\* Mutant of WriteOpen: mode "w", the file is truncated when opened.
WriteOpen_truncate(r) ==
    /\ run[r].pc = "open"
    /\ files' = [p \in DOMAIN files \cup {run[r].logpath} |->
                    IF p = run[r].logpath THEN <<>> ELSE files[p]]
    /\ run' = [run EXCEPT ![r].pc = "seek",
                          ![r].madeLog = @ \/ run[r].logpath \notin DOMAIN files]
    /\ UNCHANGED <<urlVars, clock, ticks, dirExists, dirCreatable, ffmpegExists>>

\* _write, line 107: open(logfile, "a") makes the file when it is absent and
\* leaves its content alone when it is there.
WriteOpen(r) ==
    /\ run[r].pc = "open"
    /\ files' = [p \in DOMAIN files \cup {run[r].logpath} |->
                    IF p \in DOMAIN files THEN files[p] ELSE <<>>]
    /\ run' = [run EXCEPT ![r].pc = "seek",
                          ![r].madeLog = @ \/ run[r].logpath \notin DOMAIN files]
    /\ UNCHANGED <<urlVars, clock, ticks, dirExists, dirCreatable, ffmpegExists>>

\* _write, line 108, first half: f.write buffers the line; leaving the with
\* block flushes it, and the C runtime of the platform this program is for
\* (ffmpeg.exe, Windows) serves an append-mode write by first moving the file
\* position to the end of the file as it is now.
WriteSeek(r) ==
    /\ run[r].pc = "seek"
    /\ run' = [run EXCEPT ![r].pc = "write", ![r].pos = Len(files[run[r].logpath])]
    /\ UNCHANGED <<urlVars, envVars>>

\* The content with the line written at offset pos (in lines): put after the
\* first pos lines, over whatever was there.
PutAt(content, pos, line) ==
    SubSeq(content, 1, pos) \o <<line>> \o SubSeq(content, pos + 2, Len(content))

\* _write, line 108, second half: the bytes go to the file at that position,
\* and the file is closed.
WriteData(r) ==
    /\ run[r].pc = "write"
    /\ files' = [files EXCEPT ![run[r].logpath] = PutAt(@, run[r].pos, run[r].cur)]
    /\ run' = [run EXCEPT ![r].pc = "download"]
    /\ UNCHANGED <<urlVars, clock, ticks, dirExists, dirCreatable, ffmpegExists>>

\* Mutant of FinishDownload: the engine's code becomes the exit status.
FinishDownload_propagate(r) ==
    /\ run[r].pc = "download"
    /\ \E code \in ResultCodes :
          run' = [run EXCEPT ![r].pc = "exited", ![r].result = code,
                             ![r].exitcode = code,
                             ![r].console = Append(@, Summary(code))]
    /\ UNCHANGED <<urlVars, envVars>>

\* main, lines 114-122: ydl.download returns its result code, the summary is
\* printed, main returns and the exit status is 0.
FinishDownload(r) ==
    /\ run[r].pc = "download"
    /\ \E code \in ResultCodes :
          run' = [run EXCEPT ![r].pc = "exited", ![r].result = code,
                             ![r].exitcode = 0,
                             ![r].console = Append(@, Summary(code))]
    /\ UNCHANGED <<urlVars, envVars>>

Next ==
    \/ Tick
    \/ \E r \in Runs :
          \/ Start(r)
          \/ Validate(r)
          \/ get_download_folder(r)
          \/ MakeLogFile(r)
          \/ CheckFfmpeg(r)
          \/ InvokeEngine(r)
          \/ LoggerCall(r)
          \/ WriteOpen(r)
          \/ WriteSeek(r)
          \/ WriteData(r)
          \/ FinishDownload(r)

Spec == Init /\ [][Next]_vars

\* ------------------------------------------------------------- validator claims
\* The path and id of one of the accepted shapes: watch?v=<id>, playlist?list=<id>
\* on youtube.com, or /<id> on youtu.be, the id not empty.
HasShapePath(c) ==
    /\ c.id # <<>>
    /\ \/ c.host = hostYoutube /\ c.path \in {pathWatch, pathPlaylist}
       \/ c.host = hostShort /\ c.path = pathSlash

\* One of the four shapes, http or https, with or without a www. or m. prefix.
ShapeAnyPrefix(c) ==
    /\ c.scheme \in HttpSchemes
    /\ c.sub \in {<<>>, cWww, cM}
    /\ HasShapePath(c)

\* The same, the m. prefix on watch URLs only.
ShapeOwnPrefix(c) ==
    /\ c.scheme \in HttpSchemes
    /\ \/ c.sub \in {<<>>, cWww}
       \/ c.sub = cM /\ c.host = hostYoutube /\ c.path = pathWatch
    /\ HasShapePath(c)

\* Nothing that could be an id follows the path: the string ends, or a
\* whitespace or the delimiter that ends the id's URL component comes next.
NoId(c, delim) ==
    /\ c.id = <<>>
    /\ c.tail = <<>> \/ c.tail[1] \in {delim} \cup Whitespace

LacksScheme(c) == c.scheme \notin HttpSchemes

LacksPathSegment(c) ==
    \/ c.host = hostYoutube /\ (c.path \notin {pathWatch, pathPlaylist} \/ NoId(c, "&"))
    \/ c.host = hostShort /\ (c.path = <<>> \/ (c.path = pathSlash /\ NoId(c, "?")))

\* C6 as stated: every URL of one of the four shapes, with http or https and
\* with or without a www. or m. prefix, is accepted; every string without the
\* http(s) scheme or without the required path segment is rejected.
C6_AsStated ==
    res # "unset" =>
        /\ ShapeAnyPrefix(parts) => res = "accepted"
        /\ (LacksScheme(parts) \/ LacksPathSegment(parts)) => res = "rejected"

\* C6 amended: the m. prefix is accepted on watch URLs only (www. on watch,
\* playlist and short-link URLs); the rejections are as stated.
C6_ValidatorShapes ==
    res # "unset" =>
        /\ ShapeOwnPrefix(parts) => res = "accepted"
        /\ (LacksScheme(parts) \/ LacksPathSegment(parts)) => res = "rejected"

\* An accepted mobile watch URL has been validated.
C6_Witness ==
    /\ res = "accepted"
    /\ parts.sub = cM /\ parts.path = pathWatch /\ parts.id # <<>>

\* C7: validation is closed under appending: if s is accepted then s followed
\* by any t is accepted.
C7_ClosedUnderAppending ==
    (res = "accepted" /\ resCat # "unset") => resCat = "accepted"

\* An accepted URL and the same URL with a non-empty tail have both been checked.
C7_Witness ==
    /\ res = "accepted" /\ resCat = "accepted"
    /\ suffix # <<>>
    /\ parts.tail = <<>>

\* ------------------------------------------------------------- run claims
\* The URLs a run can hold after line 59, and those of them the validator accepts.
HeldUrls == RunInputs \cup {Strip(u) : u \in RunInputs}
AcceptedUrls == {u \in HeldUrls : is_valid_youtube_url(u)}

Exited(r) == run[r].pc = "exited"
Validated(r) == run[r].valid # "unset"
Rejected(r) == run[r].valid = "rejected"
Accepted(r) == run[r].valid = "accepted"
\* The run is inside a call of FileLogger._write.
InWrite(r) == run[r].pc \in {"open", "seek", "write"}

IsLog(item) == item.kind = "log"
\* The lines the adapter of run r has printed to the console, in order.
ConsoleLines(r) ==
    LET logged == SelectSeq(run[r].console, IsLog)
    IN [i \in 1..Len(logged) |-> logged[i].line]

\* What the file at path p holds; nothing when there is no such file.
Content(p) == IF p \in DOMAIN files THEN files[p] ELSE <<>>

\* The lines of seq that run r wrote, in the order the file has them.
LinesOf(seq, r) ==
    LET ByR(l) == l.id[1] = r IN SelectSeq(seq, ByR)

Front(seq) == SubSeq(seq, 1, Len(seq) - 1)

\* C1: a run whose URL fails validation ends with a non-zero exit code, has
\* created neither the Downloads folder nor a log file, and has never invoked
\* the extraction engine.
C1_InvalidUrlNoSideEffects ==
    \A r \in Runs :
        Rejected(r) =>
            /\ run[r].url \notin AcceptedUrls
            /\ Exited(r)
            /\ run[r].exitcode # 0
            /\ ~ run[r].madeDir
            /\ ~ run[r].madeLog /\ run[r].logpath = NoPath
            /\ ~ run[r].invoked

\* A run given a URL that is no YouTube URL has ended, while the other run
\* has got as far as the engine.
C1_Witness ==
    \E r, o \in Runs :
        /\ Rejected(r) /\ Exited(r) /\ run[r].url = urlOther
        /\ run[o].invoked

\* C2: with a valid URL and ffmpeg.exe absent, the engine is never invoked and
\* the run ends with a non-zero exit code.
C2_MissingBinaryAborts ==
    \A r \in Runs :
        (Accepted(r) /\ ~ ffmpegExists) =>
            /\ ~ run[r].invoked
            /\ run[r].pc \in {"mkdir", "mklog", "ffmpeg", "exited"}
            /\ Exited(r) => run[r].exitcode # 0

\* A run with a valid URL, the folder made, has ended on the missing binary.
C2_Witness ==
    \E r \in Runs :
        /\ Accepted(r) /\ ~ ffmpegExists /\ Exited(r)
        /\ run[r].logpath # NoPath /\ run[r].exitcode = 1

\* C3 as stated: the exit code is 1 exactly when the URL is invalid or the
\* binary is missing; every other run exits 0 whatever the engine returned.
C3_AsStated ==
    \A r \in Runs :
        Exited(r) =>
            /\ run[r].exitcode = 1 <=> (Rejected(r) \/ ~ ffmpegExists)
            /\ ~ (Rejected(r) \/ ~ ffmpegExists) => run[r].exitcode = 0
            /\ run[r].invoked => run[r].exitcode = 0

\* C3 amended: a run that ends before the engine is invoked exits 1, and it
\* does so exactly when the URL is invalid, the Downloads folder cannot be
\* created, or the binary is missing; a run whose engine call returns exits 0
\* whatever the result code, which shows in the printed summary only.
C3_ExitCodes ==
    \A r \in Runs :
        Exited(r) =>
            /\ run[r].exitcode \in {0, 1}
            /\ run[r].exitcode = 1 <=> (Rejected(r) \/ ~ dirExists \/ ~ ffmpegExists)
            /\ run[r].exitcode = 1 <=> ~ run[r].invoked
            /\ run[r].invoked =>
                  /\ run[r].exitcode = 0
                  /\ run[r].result \in ResultCodes
                  /\ run[r].console[Len(run[r].console)] = Summary(run[r].result)

\* The engine returned a non-zero code and the run exited 0.
C3_Witness ==
    \E r \in Runs :
        Exited(r) /\ run[r].invoked /\ run[r].result = 1 /\ run[r].exitcode = 0

\* C4 as stated: a run with a valid URL and the binary present ends with the
\* output folder in place and one new log file, made by that run and named for
\* a clock reading of the run, however many lines the engine logged.
C4_AsStated ==
    \A r \in Runs :
        (Exited(r) /\ run[r].invoked) =>
            /\ dirExists
            /\ \E t \in run[r].started..clock : run[r].logpath = make_log_file(t)
            /\ run[r].logpath \in DOMAIN files
            /\ run[r].madeLog

\* C5: when the engine is invoked the URL has passed validation, the output
\* folder exists and the binary was found; if the folder cannot be created or
\* the binary is absent the engine is never invoked.
C5_EnginePreconditions ==
    \A r \in Runs :
        /\ run[r].invoked =>
              /\ run[r].url \in AcceptedUrls
              /\ dirExists
              /\ ffmpegExists
        /\ (~ dirCreatable \/ ~ ffmpegExists) => ~ run[r].invoked

\* The engine has been invoked, and has logged, in a run that made the folder.
C5_Witness ==
    \E r \in Runs : run[r].invoked /\ run[r].madeDir /\ run[r].sent > 0

\* The two runs have both been given a log path.
BothStamped(a, b) == a # b /\ run[a].logpath # NoPath /\ run[b].logpath # NoPath

\* C8 as stated: runs started in different seconds get different log paths,
\* runs started in the same second get the same one.
C8_AsStated ==
    \A a, b \in Runs :
        BothStamped(a, b) =>
            /\ run[a].started # run[b].started => run[a].logpath # run[b].logpath
            /\ run[a].started = run[b].started => run[a].logpath = run[b].logpath

\* Opening the log file leaves every file with the lines it had.
OpenKeepsLines ==
    \A r \in Runs :
        (run[r].pc = "open" /\ run'[r].pc = "seek") =>
            \A p \in DOMAIN files : p \in DOMAIN files' /\ files'[p] = files[p]

\* C8 amended: two runs whose make_log_file calls read different seconds of
\* the local clock get different log paths; two that read the same second get
\* the same path, and each opens that file for appending: opening it never
\* removes or changes a line that is in it.
C8_LogPathPerSecond ==
    /\ [](\A a, b \in Runs :
            BothStamped(a, b) =>
                (run[a].stamped = run[b].stamped <=> run[a].logpath = run[b].logpath))
    /\ [][OpenKeepsLines]_vars

\* Two runs stamped in the same second have both written to the one file,
\* and it holds a line of each.
C8_Witness ==
    \E a, b \in Runs :
        /\ BothStamped(a, b)
        /\ run[a].stamped = run[b].stamped
        /\ run[a].started # run[b].started
        /\ LinesOf(Content(run[a].logpath), a) # <<>>
        /\ LinesOf(Content(run[a].logpath), b) # <<>>

\* No other run has the log path of run r.
SoleWriter(r) == \A o \in Runs \ {r} : run[o].logpath # run[r].logpath

\* C9: within one run, between adapter calls the run's log file holds exactly
\* the lines the adapter printed to the console, in the same order, each with
\* its time stamp and severity tag; during a call only the line being written
\* is missing from the file, so no earlier line is altered or removed.
C9_FileMirrorsConsole ==
    \A r \in Runs :
        (run[r].logpath # NoPath /\ SoleWriter(r)) =>
            LET printed == ConsoleLines(r) IN
            /\ Content(run[r].logpath) = IF InWrite(r) THEN Front(printed) ELSE printed
            /\ Len(printed) = run[r].sent
            /\ \A i \in 1..Len(printed) :
                  /\ printed[i].level \in Levels
                  /\ printed[i].ts \in run[r].stamped..clock

\* A run alone on its file has logged two lines with different tags, in
\* different seconds, and both calls are over.
C9_Witness ==
    \E r \in Runs :
        /\ SoleWriter(r) /\ ~ InWrite(r)
        /\ Len(Content(run[r].logpath)) = 2
        /\ Content(run[r].logpath)[1].level = "WARN"
        /\ Content(run[r].logpath)[2].level = "ERROR"
        /\ Content(run[r].logpath)[1].ts # Content(run[r].logpath)[2].ts

\* C10 as stated: when runs share a log file, under every interleaving every
\* line a run has logged is in the file exactly once and the run's lines are in
\* the order it logged them; between calls the adapter holds no file open.
C10_AsStated ==
    \A r \in Runs :
        run[r].logpath # NoPath =>
            LinesOf(Content(run[r].logpath), r) =
                IF InWrite(r) THEN Front(ConsoleLines(r)) ELSE ConsoleLines(r)

====
